---------------------------- MODULE Spec2Model ----------------------------
(***************************************************************************)
(* A model of gentab.data.dataset.Dataset (src/gentab/data/dataset.py):    *)
(* the container of the real / validation / test / synthetic tables, its   *)
(* categorical codec, and the evaluation metrics computed from them.       *)
(*                                                                         *)
(* A pandas DataFrame is a sequence of rows; a row is a record             *)
(* [idx |-> its index label, v |-> [column name -> cell]].  Cells are      *)
(* integers: a category value (a string in the program) is the integer of  *)
(* its rank in the strings' sort order, a missing cell is NaN.             *)
(***************************************************************************)
EXTENDS Integers, Sequences, FiniteSets, TLC

VARIABLES
    config,         \* self.config: download, categorical_columns, binary_columns
    X, y,           \* training features / labels
    X_val, y_val,   \* validation features / labels
    X_test, y_test, \* test features / labels
    X_gen, y_gen,   \* synthetic features / labels (None until loaded)
    cats, X_cats,   \* the codebook written by compute_categories
    label_encoder,  \* LabelEncoder.classes_ fitted by get_label_encoders
    mn, mx,         \* normalization bounds written by get_min_max
    call            \* the last public call: its name, argument object, result

vars == <<config, X, y, X_val, y_val, X_test, y_test, X_gen, y_gen,
          cats, X_cats, label_encoder, mn, mx, call>>

-----------------------------------------------------------------------------
(* Bounds of the model *)

MaxRows == 2

MaxGenRows == 2

\* the largest n_partitions a Dataset is built with
MaxPartitions == 2

-----------------------------------------------------------------------------
(* Cells, rows and tables *)

\* numpy.nan: a missing cell (pandas' concat fills unmatched index labels with it)
NaN == -1000

\* X.columns, in the frame's column order
Cols == <<"f1", "f2">>

\* config["y_label"]
y_label == "y"

\* X_gen = None / y_gen = None
None == <<>>

Range(s) == {s[i] : i \in 1..Len(s)}

\* F(x), with x evaluated once (a local variable holding a computed value)
With(x, F(_)) == CHOOSE r \in {F(v) : v \in {x}} : TRUE

SetMin(S) == CHOOSE m \in S : \A n \in S : m <= n

SetMax(S) == CHOOSE m \in S : \A n \in S : m >= n

RECURSIVE SortedSeq(_)
\* the elements of a finite set of integers in ascending order
SortedSeq(S) == IF S = {} THEN <<>>
                ELSE LET m == SetMin(S) IN <<m>> \o SortedSeq(S \ {m})

\* 1-based position of v in the sequence s (v occurs in s)
PosIn(s, v) == CHOOSE i \in 1..Len(s) : s[i] = v

\* df[c]: the cells of column c, in row order
Column(df, c) == [i \in 1..Len(df) |-> df[i].v[c]]

\* RangeIndex(n): the labels 0..n-1 that read_csv and reset_index(drop=True) give
RangeIndex(n) == [i \in 1..n |-> i - 1]

\* a frame built from an index and its rows' cells
Frame(index, cells) == [i \in 1..Len(cells) |-> [idx |-> index[i], v |-> cells[i]]]

\* df.reset_index(drop=True)
reset_index(df) == [i \in 1..Len(df) |-> [idx |-> i - 1, v |-> df[i].v]]

-----------------------------------------------------------------------------
(* Categorical codec *)

\* pd.Categorical(col).categories: the sorted distinct non-missing values of col
Categories(col) == SortedSeq(Range(col) \ {NaN})

\* a mutant of Codes: codes numbered in order of first appearance
CodesFirstSeen(col) ==
    LET firsts == {i \in 1..Len(col) :
                      col[i] # NaN /\ \A j \in 1..(i - 1) : col[j] # col[i]}
    IN [i \in 1..Len(col) |->
          IF col[i] = NaN THEN -1
          ELSE Cardinality({j \in firsts : j < (CHOOSE k \in firsts : col[k] = col[i])})]

\* pd.Categorical(col).codes: each cell's position in the categories inferred
\* from col itself, -1 for a missing cell
Codes(col) ==
    LET cs == Categories(col)
    IN [i \in 1..Len(col) |-> IF col[i] = NaN THEN -1 ELSE PosIn(cs, col[i]) - 1]

\* Dataset.encode_categories
encode_categories(df) ==
    IF config.download = "imbalanced"
    THEN df
    ELSE [i \in 1..Len(df) |->
            [df[i] EXCEPT !.v = [c \in DOMAIN df[i].v |->
                IF c \in Range(cats) THEN Codes(Column(df, c))[i] ELSE df[i].v[c]]]]

\* Categorical.from_codes raises ValueError unless every code is an integer in
\* -1 .. len(categories) - 1
CodesValid(codes, categories) ==
    \A i \in 1..Len(codes) : codes[i] >= -1 /\ codes[i] < Len(categories)

\* a mutant of from_codes: the bounds check on the codes is missing, so a code
\* past the end wraps around the categories
from_codes_unchecked(codes, categories) ==
    [err |-> "none",
     val |-> [i \in 1..Len(codes) |->
                IF codes[i] = -1 \/ categories = <<>> THEN NaN
                ELSE categories[(codes[i] % Len(categories)) + 1]]]

\* pd.Categorical.from_codes(codes, categories): -1 decodes to a missing cell
from_codes(codes, categories) ==
    IF ~CodesValid(codes, categories)
    THEN [err |-> "ValueError", val |-> <<>>]
    ELSE [err |-> "none",
          val |-> [i \in 1..Len(codes) |->
                     IF codes[i] = -1 THEN NaN ELSE categories[codes[i] + 1]]]

\* Dataset.decode_categories: the result, or the error raised.  The frame is
\* decoded in place: without an error the argument object is the result.
decode_categories(df) ==
    IF config.download = "imbalanced"
    THEN [err |-> "none", val |-> df]
    ELSE LET dec == [c \in Range(cats) |-> from_codes(Column(df, c), X_cats[c])]
         IN IF \E c \in Range(cats) : dec[c].err # "none"
            THEN [err |-> "ValueError", val |-> <<>>]
            ELSE [err |-> "none",
                  val |-> [i \in 1..Len(df) |->
                      [df[i] EXCEPT !.v = [c \in DOMAIN df[i].v |->
                          IF c \in Range(cats) THEN dec[c].val[i] ELSE df[i].v[c]]]]]

-----------------------------------------------------------------------------
(* Construction: Dataset.__init__ after the tables are loaded *)

\* the categories written by compute_categories (X_cats[c].cat.categories)
compute_categories_X_cats(cs, df) == [c \in Range(cs) |-> Categories(Column(df, c))]

\* LabelEncoder().fit(y).classes_
get_label_encoders(labels) == Categories(Column(labels, y_label))

\* DataFrame.min() / .max() of one column: missing cells are skipped, and an
\* all-missing or empty column gives NaN
ColMin(df, c) == LET S == Range(Column(df, c)) \ {NaN}
                 IN IF S = {} THEN NaN ELSE SetMin(S)

ColMax(df, c) == LET S == Range(Column(df, c)) \ {NaN}
                 IN IF S = {} THEN NaN ELSE SetMax(S)

\* np.min / np.max over the three per-table results: NaN propagates
npMin(S) == IF NaN \in S THEN NaN ELSE SetMin(S)

npMax(S) == IF NaN \in S THEN NaN ELSE SetMax(S)

\* Dataset.get_min_max: self.mn and self.mx
get_min_max_mn == [c \in Range(Cols) |->
    npMin({ColMin(encode_categories(X), c), ColMin(encode_categories(X_val), c),
           ColMin(encode_categories(X_test), c)})]

get_min_max_mx == [c \in Range(Cols) |->
    npMax({ColMax(encode_categories(X), c), ColMax(encode_categories(X_val), c),
           ColMax(encode_categories(X_test), c)})]

\* The state Dataset.__init__ leaves: the loaded tables, then
\* get_label_encoders, compute_categories and get_min_max
Constructed(cfg, x, yy, xv, yv, xt, yt) ==
    /\ config = cfg
    /\ X = x /\ y = yy
    /\ X_val = xv /\ y_val = yv
    /\ X_test = xt /\ y_test = yt
    /\ X_gen = None /\ y_gen = None
    /\ label_encoder = get_label_encoders(yy)
    /\ cats = cfg.categorical_columns \o cfg.binary_columns
    /\ X_cats = compute_categories_X_cats(cats, x)
    /\ mn = get_min_max_mn
    /\ mx = get_min_max_mx
    /\ call = [op |-> "__init__"]

-----------------------------------------------------------------------------
(* Operations shared by the specifications *)

\* the frame a public attribute names
TableOf(name) == CASE name = "X" -> X
                   [] name = "X_val" -> X_val
                   [] name = "X_test" -> X_test
                   [] name = "X_gen" -> X_gen

\* df.drop(rows_to_remove): the rows whose label is not among rows_to_remove
drop(df, rows_to_remove) ==
    SelectSeq(df, LAMBDA r : r.idx \notin rows_to_remove)

\* X.head(n).index
head_index(df, n) == {df[i].idx : i \in 1..(IF n < Len(df) THEN n ELSE Len(df))}

\* Dataset.remove: the rows are dropped from X and y by label, and both
\* indexes are reset
remove(rows_to_remove) ==
    /\ X' = reset_index(drop(X, rows_to_remove))
    /\ y' = reset_index(drop(y, rows_to_remove))

\* Dataset.drop_first_n, mutated: the codebook is fitted again on what is left
drop_first_n_refit(n) ==
    /\ remove(head_index(X, n))
    /\ X_cats' = compute_categories_X_cats(cats, X')
    /\ call' = [op |-> "drop_first_n", n |-> n]
    /\ UNCHANGED <<config, X_val, y_val, X_test, y_test, X_gen, y_gen,
                   cats, label_encoder, mn, mx>>

\* Dataset.drop_first_n(n)
drop_first_n(n) ==
    /\ remove(head_index(X, n))
    /\ call' = [op |-> "drop_first_n", n |-> n]
    /\ UNCHANGED <<config, X_val, y_val, X_test, y_test, X_gen, y_gen,
                   cats, X_cats, label_encoder, mn, mx>>

\* A caller's drop_first_n(n), n no more than the rows there are
DropFirstN(n) == n <= Len(X) /\ drop_first_n(n)

\* A caller's encode_categories(df) on one of the container's feature tables
Encode(name) ==
    /\ name = "X_gen" => X_gen # None
    /\ call' = [op |-> "encode_categories", arg |-> TableOf(name),
                ret |-> encode_categories(TableOf(name))]
    /\ UNCHANGED <<config, X, y, X_val, y_val, X_test, y_test, X_gen, y_gen,
                   cats, X_cats, label_encoder, mn, mx>>

\* the call record of decode_categories(df): `encoded` tells that df is what
\* encode_categories returned for the table `of`, `before` is df as passed,
\* `arg` is the same object after the call
DecodeCall(encoded, of, df) ==
    LET r == decode_categories(df)
    IN [op |-> "decode_categories", encoded |-> encoded, of |-> of, before |-> df,
        arg |-> IF r.err = "none" THEN r.val ELSE df, ret |-> r]

\* decode_categories applied to what encode_categories just returned
DecodeEncoded ==
    /\ call.op = "encode_categories"
    /\ call' = DecodeCall(TRUE, call.arg, call.ret)
    /\ UNCHANGED <<config, X, y, X_val, y_val, X_test, y_test, X_gen, y_gen,
                   cats, X_cats, label_encoder, mn, mx>>

\* decode_categories applied to a table of codes from elsewhere (a generator)
Decode(df) ==
    /\ call' = DecodeCall(FALSE, None, df)
    /\ UNCHANGED <<config, X, y, X_val, y_val, X_test, y_test, X_gen, y_gen,
                   cats, X_cats, label_encoder, mn, mx>>

-----------------------------------------------------------------------------
(* The column roles a configuration file declares *)

\* config["download"] is absent: the tables are read by load_path
NoDownload == "none"

Configs == {
    [download |-> "ucimlrepo", categorical_columns |-> <<"f1">>, binary_columns |-> <<>>],
    [download |-> "ucimlrepo", categorical_columns |-> <<"f1">>, binary_columns |-> <<"f2">>],
    [download |-> "sklearn", categorical_columns |-> <<>>, binary_columns |-> <<>>],
    [download |-> "imbalanced", categorical_columns |-> <<>>, binary_columns |-> <<"f1", "f2">>] }

\* all sequences over S of length lo..hi
SeqsOf(S, lo, hi) == UNION {[1..k -> S] : k \in lo..hi}

\* a labels frame: one column, config["y_label"]
LabelFrame(index, labels) ==
    Frame(index, [i \in 1..Len(labels) |-> [y |-> labels[i]]])

-----------------------------------------------------------------------------
(* SpecCodec: the categorical codec on small tables *)

\* the cells of the training rows: f1 is a category (possibly missing)
CodecRows == {[f1 |-> a, f2 |-> b] : a \in {1, 2, 3, NaN}, b \in {1, 2}}

\* one row of codes as a generator might emit it, valid or not
CodeRows == {[f1 |-> a, f2 |-> b] : a \in -2..3, b \in -1..2}

InitCodec ==
    \E cfg \in Configs, cells \in SeqsOf(CodecRows, 1, MaxRows) :
        Constructed(cfg,
                    Frame(RangeIndex(Len(cells)), cells),
                    LabelFrame(RangeIndex(Len(cells)),
                               [i \in 1..Len(cells) |-> 1 + (i % 2)]),
                    Frame(RangeIndex(1), <<[f1 |-> 2, f2 |-> 2]>>),
                    LabelFrame(RangeIndex(1), <<1>>),
                    Frame(RangeIndex(2), <<[f1 |-> 3, f2 |-> 1], [f1 |-> 1, f2 |-> 2]>>),
                    LabelFrame(RangeIndex(2), <<2, 1>>))

NextCodec ==
    \/ \E name \in {"X", "X_val", "X_test"} : Encode(name)
    \/ DecodeEncoded
    \/ \E cells \in CodeRows : Decode(Frame(RangeIndex(1), <<cells>>))
    \/ \E n \in 0..MaxRows : DropFirstN(n)

SpecCodec == InitCodec /\ [][NextCodec]_vars

\* the codebook was fitted on T's own categories
FittedOn(T) == \A c \in Range(cats) : Categories(Column(T, c)) = X_cats[c]

\* C1: decoding what encode_categories returned for a table whose own
\* categories are the codebook's gives the table back, cell for cell, the
\* columns outside the codebook included.
C1_RoundTrip ==
    (call.op = "decode_categories" /\ call.encoded /\ FittedOn(call.of))
        => (call.ret.err = "none" /\ call.ret.val = call.of)

\* C1's case: the training table the codebook was fitted on, with categories
\* that do not appear in sorted order, has gone through encode and decode
C1_Witness ==
    /\ call.op = "decode_categories"
    /\ call.encoded /\ call.of = X /\ FittedOn(X)
    /\ config.download # "imbalanced"
    /\ Len(X) >= 2 /\ X[1].v["f1"] # NaN /\ X[2].v["f1"] # NaN
    /\ X[1].v["f1"] > X[2].v["f1"]
    /\ call.before # call.of
    /\ call.ret.err = "none"

\* C2: encode_categories gives a category value its position in the training
\* codebook, in every table that holds it.
C2_TrainingCodebookPosition ==
    (call.op = "encode_categories" /\ config.download # "imbalanced")
        => \A i \in 1..Len(call.arg) : \A c \in Range(cats) :
              (\E k \in 1..Len(X_cats[c]) : X_cats[c][k] = call.arg[i].v[c])
                  => call.ret[i].v[c] = PosIn(X_cats[c], call.arg[i].v[c]) - 1

\* a code outside 0 .. len(categories) - 1 in some codebook column of df
HasCodeOutside(df, lo) ==
    \E c \in Range(cats) : \E i \in 1..Len(df) :
        df[i].v[c] < lo \/ df[i].v[c] >= Len(X_cats[c])

-----------------------------------------------------------------------------
(* The encoded real and synthetic tables *)

\* numpy.inf: a non-zero difference divided by a zero weight
Inf == 2147483647

\* the columns of real_data and gen_data: the features, then the label
DataCols == Cols \o <<y_label>>

\* Dataset.encode_labels: LabelEncoder.transform gives each label its position
\* in classes_ and raises ValueError on a label it was not fitted on
encode_labels(labels) ==
    IF \E i \in 1..Len(labels) : labels[i].v[y_label] \notin Range(label_encoder)
    THEN [err |-> "ValueError", val |-> <<>>]
    ELSE [err |-> "none",
          val |-> [i \in 1..Len(labels) |->
                     PosIn(label_encoder, labels[i].v[y_label]) - 1]]

\* pd.concat([df, pd.Series(ser)], axis=1): an outer join on the index labels.
\* The series carries RangeIndex(len(ser)); a label only one side has gets NaN
\* on the other side.  The labels of df come first, then the series' own.
concat_axis1(df, ser) ==
    LET own    == {df[i].idx : i \in 1..Len(df)}
        labels == [i \in 1..Len(df) |-> df[i].idx]
                     \o SortedSeq({j \in 0..(Len(ser) - 1) : j \notin own})
        feat(l) == IF l \in own
                   THEN df[CHOOSE i \in 1..Len(df) : df[i].idx = l].v
                   ELSE [c \in Range(Cols) |-> NaN]
        lab(l)  == IF l \in 0..(Len(ser) - 1) THEN ser[l + 1] ELSE NaN
    IN [k \in 1..Len(labels) |->
          [idx |-> labels[k],
           v   |-> [c \in Range(DataCols) |->
                      IF c = y_label THEN lab(labels[k]) ELSE feat(labels[k])[c]]]]

\* Dataset.get_single_encoded_data: (real_data, gen_data), or the error raised
get_single_encoded_data ==
    LET y_real == encode_labels(y)
        y_gen_ == encode_labels(y_gen)
    IN IF y_real.err # "none" \/ y_gen_.err # "none"
       THEN [err |-> "ValueError", real |-> <<>>, gen |-> <<>>]
       ELSE [err  |-> "none",
             real |-> concat_axis1(encode_categories(X), y_real.val),
             gen  |-> concat_axis1(encode_categories(X_gen), y_gen_.val)]

RECURSIVE SortByIdx(_)
\* dd.from_pandas(df, npartitions).compute(): the rows sorted by index label
SortByIdx(df) ==
    IF df = <<>> THEN <<>>
    ELSE LET m == SetMin({df[i].idx : i \in 1..Len(df)})
             k == CHOOSE i \in 1..Len(df) : df[i].idx = m
         IN <<df[k]>> \o SortByIdx(SelectSeq(df, LAMBDA r : r.idx # m))

-----------------------------------------------------------------------------
(* Floating-point values: a finite value is an integer, next to NaN and Inf. *)
(* A Euclidean distance is kept as its square, which orders the same way.    *)

RECURSIVE SumFrom(_, _)
SumFrom(s, k) == IF k > Len(s) THEN 0 ELSE s[k] + SumFrom(s, k + 1)

\* the sum of a sequence of integers
SumSeq(s) == With(s, LAMBDA v : SumFrom(v, 1))

RECURSIVE ProdFrom(_, _)
ProdFrom(s, k) == IF k > Len(s) THEN 1 ELSE s[k] * ProdFrom(s, k + 1)

\* the product of a sequence of integers
ProdSeq(s) == With(s, LAMBDA v : ProdFrom(v, 1))

Abs(n) == IF n < 0 THEN -n ELSE n

\* a < b on floats: false when either side is NaN
Lt(a, b) == a # NaN /\ b # NaN /\ a < b

\* np.min of an array: NaN if any element is NaN
npMinArr(s) == IF NaN \in Range(s) THEN NaN ELSE SetMin(Range(s))

\* the sort order of np.partition / np.sort: NaN after every number
SortsBefore(a, b) == b = NaN \/ (a # NaN /\ a <= b)

\* np.partition(a, 1)[0:2] for len(a) >= 2: the smallest and the second
\* smallest element in that order
partition_first_two(a) ==
    With(a, LAMBDA v :
      With(CHOOSE i \in 1..Len(v) : \A j \in 1..Len(v) : SortsBefore(v[i], v[j]),
        LAMBDA i1 :
          <<v[i1],
            v[CHOOSE i \in (1..Len(v)) \ {i1} :
                 \A j \in (1..Len(v)) \ {i1} : SortsBefore(v[i], v[j])]>>))

\* euclidean_distance(source, target) without weights, squared, for one target row
euclidean_distance(source, target) ==
    IF \E c \in Range(DataCols) : source[c] = NaN \/ target[c] = NaN
    THEN NaN
    ELSE SumSeq([k \in 1..Len(DataCols) |->
                   (source[DataCols[k]] - target[DataCols[k]])
                 * (source[DataCols[k]] - target[DataCols[k]])])

\* k * ln(k), in tenths, for the entropy of a column of up to 8 cells
NLogN == <<0, 14, 33, 55, 80, 108, 136, 166>>

\* Dataset.column_entropy: scipy's entropy of the value counts of the rounded
\* column, times the number of cells (the same for every column of a table):
\* N * H = N ln N - sum_v count(v) ln count(v).  Zero exactly when the column
\* holds one distinct value.  np.unique counts the missing cells as one value.
column_entropy(column) ==
    LET vals == Range(column)
        cnt(v) == Cardinality({i \in 1..Len(column) : column[i] = v})
        cs == SortedSeq(vals)
    IN NLogN[Len(column)] - SumSeq([k \in 1..Len(cs) |-> NLogN[cnt(cs[k])]])

\* the weighted euclidean distance of the risk pass, squared, for one target
\* row: sum_c ((source - target)_c / w_c)^2, over the common denominator
\* prod_c w_c^2 of the non-zero weights.  A zero weight gives 0/0 = NaN for an
\* equal cell and Inf for a different one.
weighted_distance(source, target, w) ==
    LET d(c) == IF source[c] = NaN \/ target[c] = NaN THEN NaN
                ELSE source[c] - target[c]
        others(c) == ProdSeq([k \in 1..Len(DataCols) |->
                        IF DataCols[k] = c THEN 1 ELSE w[DataCols[k]] * w[DataCols[k]]])
    IN IF \E c \in Range(DataCols) : d(c) = NaN \/ (w[c] = 0 /\ d(c) = 0)
       THEN NaN
       ELSE IF \E c \in Range(DataCols) : w[c] = 0
       THEN Inf
       ELSE SumSeq([k \in 1..Len(DataCols) |->
                      d(DataCols[k]) * d(DataCols[k]) * others(DataCols[k])])

-----------------------------------------------------------------------------
(* Dataset.compute_distances_hits *)

\* the denominator of thres_percent: thres_percent = p / ThresDen
ThresDen == 10

\* min_l2_distance(row, real_array), for len(real_array) >= 2
min_l2_distance(row, real_array) ==
    With(partition_first_two([i \in 1..Len(real_array) |->
                                 euclidean_distance(row, real_array[i].v)]),
         LAMBDA p : IF Lt(p[1], p[2]) THEN <<p[1], p[2]>> ELSE <<p[2], p[1]>>)

\* thres: p/ThresDen of each column's range in real_data (max and min skip
\* missing cells), kept as the numerator over ThresDen; zero for the
\* categorical, binary and label columns; NaN for an all-missing column
thres_of(p, real_data) ==
    [c \in Range(DataCols) |->
        IF c \in Range(cats) \/ c = y_label THEN 0
        ELSE IF ColMax(real_data, c) = NaN THEN NaN
        ELSE p * (ColMax(real_data, c) - ColMin(real_data, c))]

\* (np.abs(row - fake_row) <= thres).all() for one synthetic row
within_thres(row, fake_row, thres) ==
    \A c \in Range(DataCols) :
        /\ row[c] # NaN /\ fake_row[c] # NaN /\ thres[c] # NaN
        /\ ThresDen * Abs(row[c] - fake_row[c]) <= thres[c]

\* min_dist_real_synth(row, real_array, fake_array, thres, w), for
\* len(real_array) >= 2 and a non-empty fake_array
min_dist_real_synth(row, real_array, fake_array, thres, w) ==
    LET hits == {i \in 1..Len(fake_array) : within_thres(row, fake_array[i].v, thres)}
        fake_distance == [i \in 1..Len(fake_array) |->
                             weighted_distance(row, fake_array[i].v, w)]
        real_distance == [i \in 1..Len(real_array) |->
                             weighted_distance(row, real_array[i].v, w)]
        min_real_dist == With(partition_first_two(real_distance),
                              LAMBDA p : IF Lt(p[1], p[2]) THEN p[2] ELSE p[1])
    IN [hit |-> hits # {}, r_s_diff_min |-> With(fake_distance, npMinArr),
        r_r_diff_min |-> min_real_dist]

\* the two passes of compute_distances_hits over the encoded arrays.
\* np.partition(a, 1) raises ValueError on an array of fewer than two elements,
\* and np.min on an empty one.
distances_hits(real_array, fake_array, thres, w) ==
    IF (Len(real_array) < 2 /\ Len(real_array) + Len(fake_array) > 0)
       \/ (Len(fake_array) = 0 /\ Len(real_array) > 0)
    THEN [err |-> "ValueError", synth |-> <<>>, real |-> <<>>]
    ELSE [err |-> "none",
          synth |-> [i \in 1..Len(fake_array) |->
              With(min_l2_distance(fake_array[i].v, real_array),
                   LAMBDA m : [idx |-> fake_array[i].idx,
                               s_r_l2_min_1 |-> m[1], s_r_l2_min_2 |-> m[2]])],
          real |-> [i \in 1..Len(real_array) |->
              With(min_dist_real_synth(real_array[i].v, real_array,
                                       fake_array, thres, w),
                   LAMBDA m : [idx |-> real_array[i].idx, hit |-> m.hit,
                               r_s_diff_min |-> m.r_s_diff_min,
                               r_r_diff_min |-> m.r_r_diff_min])]]

\* Dataset.compute_distances_hits(thres_percent = p / ThresDen): the pair
\* (synth_dists, real_hits_diffs), or the error raised
compute_distances_hits(p) ==
    With(get_single_encoded_data, LAMBDA data :
      IF data.err # "none"
      THEN [err |-> data.err, synth |-> <<>>, real |-> <<>>]
      ELSE With(SortByIdx(data.real), LAMBDA real_array :
           With(SortByIdx(data.gen), LAMBDA fake_array :
           With(thres_of(p, data.real), LAMBDA thres :
           With([c \in Range(DataCols) |-> column_entropy(Column(real_array, c))],
                LAMBDA w : distances_hits(real_array, fake_array, thres, w))))))

\* Dataset.hitting_rate(stats): the quotient, as numerator and denominator
hitting_rate(stats) ==
    [num |-> Cardinality({i \in 1..Len(stats) : stats[i].hit}), den |-> Len(X)]

\* Dataset.epsilon_identifiability_risk(stats): r_s - r_r < 0 is false when the
\* difference is NaN (a NaN side, or Inf - Inf)
epsilon_identifiability_risk(stats) ==
    [num |-> Cardinality({i \in 1..Len(stats) :
                             Lt(stats[i].r_s_diff_min, stats[i].r_r_diff_min)}),
     den |-> Len(X)]

\* Dataset.mean_distance_closest_record(stats): pandas' mean skips the NaN
\* entries and is NaN when none is left.  The mean of the distances is kept as
\* the squares of its terms: mean = sum(sqrt(sq[i])) / len(sq).
mean_distance_closest_record(stats) ==
    LET sq == SelectSeq([i \in 1..Len(stats) |-> stats[i].s_r_l2_min_1],
                        LAMBDA d : d # NaN)
    IN [nan |-> sq = <<>>, sq |-> sq]

\* first / second for one synthetic row: NaN for a NaN side and for 0 / 0,
\* Inf for x / 0, otherwise sqrt(num / den)
distance_ratio(first, second) ==
    IF first = NaN \/ second = NaN \/ (first = 0 /\ second = 0) THEN [k |-> "nan"]
    ELSE IF second = 0 THEN [k |-> "inf"]
    ELSE [k |-> "fin", num |-> first, den |-> second]

\* Dataset.nearest_neighbor_distance_ratio(stats): np.mean of the per-row
\* ratios, NaN as soon as one of them is NaN; kept as its terms
nearest_neighbor_distance_ratio(stats) ==
    LET r == [i \in 1..Len(stats) |->
                 distance_ratio(stats[i].s_r_l2_min_1, stats[i].s_r_l2_min_2)]
    IN [nan |-> \E i \in 1..Len(r) : r[i].k = "nan", terms |-> r]

-----------------------------------------------------------------------------
(* SpecDist: the distance / privacy metrics on small real and synthetic tables *)

\* Dataset.get_single_df: pd.concat([X, y], axis=1); X and y carry the same index
get_single_df ==
    [i \in 1..Len(X) |->
        [idx |-> X[i].idx,
         v   |-> [c \in Range(DataCols) |->
                    IF c = y_label
                    THEN y[CHOOSE j \in 1..Len(y) : y[j].idx = X[i].idx].v[y_label]
                    ELSE X[i].v[c]]]]

\* Dataset.set_split_result(data): the label column is split off, the index kept
set_split_result(data) ==
    /\ X_gen' = [i \in 1..Len(data) |->
                    [idx |-> data[i].idx, v |-> [c \in Range(Cols) |-> data[i].v[c]]]]
    /\ y_gen' = [i \in 1..Len(data) |->
                    [idx |-> data[i].idx, v |-> [c \in {y_label} |-> data[i].v[c]]]]

\* A generator hands back the training table itself, row for row
SetSplitResultCopy ==
    /\ set_split_result(get_single_df)
    /\ call' = [op |-> "set_split_result", copy |-> TRUE]
    /\ UNCHANGED <<config, X, y, X_val, y_val, X_test, y_test,
                   cats, X_cats, label_encoder, mn, mx>>

\* Dataset.load_from_disk: X_gen and y_gen are read from csv files
LoadFromDisk(cells, labels) ==
    /\ Len(cells) = Len(labels)
    /\ X_gen' = Frame(RangeIndex(Len(cells)), cells)
    /\ y_gen' = LabelFrame(RangeIndex(Len(labels)), labels)
    /\ call' = [op |-> "load_from_disk", copy |-> FALSE]
    /\ UNCHANGED <<config, X, y, X_val, y_val, X_test, y_test,
                   cats, X_cats, label_encoder, mn, mx>>

\* A caller's compute_distances_hits(thres_percent = p / ThresDen) once the
\* synthetic tables are there; `copy` tells that they were set from the
\* training table itself
ComputeDistancesHits(p) ==
    /\ X_gen # None
    /\ call.op \in {"set_split_result", "load_from_disk"}
    /\ call' = [op |-> "compute_distances_hits", p |-> p, copy |-> call.copy,
                ret |-> compute_distances_hits(p)]
    /\ UNCHANGED <<config, X, y, X_val, y_val, X_test, y_test, X_gen, y_gen,
                   cats, X_cats, label_encoder, mn, mx>>

\* A caller's get_single_encoded_data() once the synthetic tables are there
GetSingleEncodedData ==
    /\ X_gen # None
    /\ call.op \in {"set_split_result", "load_from_disk"}
    /\ call' = [op |-> "get_single_encoded_data", copy |-> call.copy,
                ret |-> get_single_encoded_data]
    /\ UNCHANGED <<config, X, y, X_val, y_val, X_test, y_test, X_gen, y_gen,
                   cats, X_cats, label_encoder, mn, mx>>

\* the calls that pass on the statistics compute_distances_hits returned
MetricOps == {"hitting_rate", "epsilon_identifiability_risk",
              "mean_distance_closest_record", "nearest_neighbor_distance_ratio"}

\* the statistics a caller holds after a compute_distances_hits that returned
HasStats == \/ call.op = "compute_distances_hits" /\ call.ret.err = "none"
            \/ call.op \in MetricOps

Stats == IF call.op = "compute_distances_hits" THEN call.ret ELSE call.stats

MetricCall(op, ret) ==
    /\ HasStats
    /\ call' = [op |-> op, p |-> call.p, copy |-> call.copy, stats |-> Stats,
                ret |-> ret]
    /\ UNCHANGED <<config, X, y, X_val, y_val, X_test, y_test, X_gen, y_gen,
                   cats, X_cats, label_encoder, mn, mx>>

HittingRate == MetricCall("hitting_rate", hitting_rate(Stats.real))

EpsilonIdentifiabilityRisk ==
    MetricCall("epsilon_identifiability_risk", epsilon_identifiability_risk(Stats.real))

MeanDistanceClosestRecord ==
    MetricCall("mean_distance_closest_record", mean_distance_closest_record(Stats.synth))

NearestNeighborDistanceRatio ==
    MetricCall("nearest_neighbor_distance_ratio",
               nearest_neighbor_distance_ratio(Stats.synth))

\* training rows: f1 is a category, f2 a measurement
DistRows == {[f1 |-> a, f2 |-> b] : a \in {1, 2}, b \in {0, 2}}

\* synthetic rows
GenRows == {[f1 |-> a, f2 |-> b] : a \in {1, 2}, b \in {0, 1}}

Classes == {1, 2}

DistConfigs == {
    [download |-> "ucimlrepo", categorical_columns |-> <<"f1">>, binary_columns |-> <<>>],
    [download |-> NoDownload, categorical_columns |-> <<"f1">>, binary_columns |-> <<>>] }

\* The index of the training table after loading.  The download_* loaders end
\* with reset_indexes.  load_path splits the csv's rows with train_test_split
\* and does not: the training rows keep the labels they had in the file, a
\* shuffled selection of 0 .. N-1 (here N = n + 1: one row went to validation).
TrainIndexes(cfg, n) ==
    IF cfg.download # NoDownload THEN {RangeIndex(n)}
    ELSE {s \in [1..n -> 0..n] : \A i, j \in 1..n : s[i] = s[j] => i = j}

\* thres_percent, in tenths: 0 and 0.5
ThresPercents == {0, 5}

InitDist ==
    \E cfg \in DistConfigs, cells \in SeqsOf(DistRows, 1, MaxRows) :
      \E labels \in [1..Len(cells) -> Classes], index \in TrainIndexes(cfg, Len(cells)) :
        Constructed(cfg, Frame(index, cells), LabelFrame(index, labels),
                    Frame(RangeIndex(1), <<[f1 |-> 2, f2 |-> 2]>>),
                    LabelFrame(RangeIndex(1), <<1>>),
                    Frame(RangeIndex(1), <<[f1 |-> 1, f2 |-> 0]>>),
                    LabelFrame(RangeIndex(1), <<2>>))

NextDist ==
    \/ \E cells \in SeqsOf(GenRows, 1, MaxGenRows) :
         \E labels \in [1..Len(cells) -> Classes] :
            call.op = "__init__" /\ LoadFromDisk(cells, labels)
    \/ call.op = "__init__" /\ SetSplitResultCopy
    \/ \E p \in ThresPercents : ComputeDistancesHits(p)
    \/ GetSingleEncodedData
    \/ HittingRate
    \/ EpsilonIdentifiabilityRisk
    \/ MeanDistanceClosestRecord
    \/ NearestNeighborDistanceRatio

SpecDist == InitDist /\ [][NextDist]_vars

-----------------------------------------------------------------------------
(* Claims on the distance / privacy metrics *)

\* a quotient num / den that is in [0, 1]
InUnitInterval(q) == q.den > 0 /\ 0 <= q.num /\ q.num <= q.den

\* C3: with a non-empty real and a non-empty synthetic table (every table of
\* SpecDist is), compute_distances_hits does not fail and returns one
\* statistics row per training row, and hitting_rate and
\* epsilon_identifiability_risk are in [0, 1].
C3_RatesInUnitInterval ==
    /\ call.op = "compute_distances_hits"
          => (call.ret.err = "none" /\ Len(call.ret.real) = Len(X))
    /\ call.op \in {"hitting_rate", "epsilon_identifiability_risk"}
          => InUnitInterval(call.ret)

\* C4: for every synthetic row s_r_l2_min_1 <= s_r_l2_min_2, and the ratio
\* nearest_neighbor_distance_ratio takes of the two is a defined value in [0, 1].
C4_NearestTwoOrderedRatioDefined ==
    /\ (call.op = "compute_distances_hits" /\ call.ret.err = "none")
          => \A i \in 1..Len(call.ret.synth) :
                /\ call.ret.synth[i].s_r_l2_min_1 # NaN
                /\ call.ret.synth[i].s_r_l2_min_2 # NaN
                /\ call.ret.synth[i].s_r_l2_min_1 <= call.ret.synth[i].s_r_l2_min_2
    /\ call.op = "nearest_neighbor_distance_ratio"
          => \A i \in 1..Len(call.ret.terms) :
                /\ call.ret.terms[i].k = "fin"
                /\ call.ret.terms[i].num <= call.ret.terms[i].den

\* C5: when the synthetic table is a row-for-row copy of the training table,
\* compute_distances_hits returns, mean_distance_closest_record is 0 and
\* hitting_rate is 1, for every thres_percent >= 0.
C5_ExactCopyZeroDistanceFullHit ==
    /\ (call.op = "compute_distances_hits" /\ call.copy) => call.ret.err = "none"
    /\ (call.op = "mean_distance_closest_record" /\ call.copy)
          => (~call.ret.nan /\ \A i \in 1..Len(call.ret.sq) : call.ret.sq[i] = 0)
    /\ (call.op = "hitting_rate" /\ call.copy)
          => (call.ret.den > 0 /\ call.ret.num = call.ret.den)

\* the rows of a table: each feature row with the label of the same row,
\* encoded as encode_categories and encode_labels encode them
RowForRow(df, labels) ==
    With(encode_categories(df), LAMBDA enc :
      [i \in 1..Len(df) |->
        [c \in Range(DataCols) |->
           IF c = y_label THEN PosIn(label_encoder, labels[i].v[y_label]) - 1
           ELSE enc[i].v[c]]])

\* the second smallest of the distances a, if there are two
SecondSmallest(a) == IF Len(a) < 2 THEN NaN ELSE partition_first_two(a)[2]

\* the number of training rows whose smallest entropy-weighted distance to the
\* synthetic rows is below the second smallest one to the training rows
RiskCount ==
    With(RowForRow(X, y), LAMBDA real :
    With(RowForRow(X_gen, y_gen), LAMBDA gen :
    With([c \in Range(DataCols) |->
             column_entropy([i \in 1..Len(real) |-> real[i][c]])], LAMBDA w :
      Cardinality({i \in 1..Len(real) :
         Lt(npMinArr([j \in 1..Len(gen) |-> weighted_distance(real[i], gen[j], w)]),
            SecondSmallest([k \in 1..Len(real) |->
                               weighted_distance(real[i], real[k], w)]))}))))

\* C6: epsilon_identifiability_risk is the number of training rows whose
\* smallest entropy-weighted distance to the synthetic rows is strictly below
\* the second smallest entropy-weighted distance from that row to all the
\* training rows (itself included), divided by the number of training rows.
C6_RiskIsCountOverRows ==
    call.op = "epsilon_identifiability_risk"
        => (call.ret.den = Len(X) /\ call.ret.num = RiskCount)

\* training row i and synthetic row j are equal in the label and in every
\* categorical and binary column, and differ in every continuous column by at
\* most p / ThresDen of that column's range in the training table
WithinThreshold(i, j, p) ==
    /\ y[i].v[y_label] = y_gen[j].v[y_label]
    /\ \A c \in Range(Cols) :
          IF c \in Range(cats) THEN X[i].v[c] = X_gen[j].v[c]
          ELSE ThresDen * Abs(X[i].v[c] - X_gen[j].v[c])
                  <= p * (ColMax(X, c) - ColMin(X, c))

\* C7: the hit flag of a training row is true exactly when some synthetic row
\* is within the thresholds of it in every column at once.
C7_HitExactlyWhenWithinThreshold ==
    (call.op = "compute_distances_hits" /\ call.ret.err = "none")
        => \A i \in 1..Len(X) :
              \E k \in 1..Len(call.ret.real) :
                 /\ call.ret.real[k].idx = X[i].idx
                 /\ call.ret.real[k].hit
                       <=> \E j \in 1..Len(X_gen) : WithinThreshold(i, j, call.p)

-----------------------------------------------------------------------------
(* Correlations.  A float is kept as an exact fraction: nan, or num / den     *)
(* with den > 0.  A Pearson coefficient r is kept as sign(r) * r^2, which     *)
(* orders and compares as r does.                                             *)

Q(n, d) == [nan |-> FALSE, num |-> n, den |-> d]

QZero == Q(0, 1)

QOne == Q(1, 1)

QNaN == [nan |-> TRUE, num |-> 0, den |-> 1]

\* a == b on floats: false when either side is NaN
QEq(a, b) == ~a.nan /\ ~b.nan /\ a.num * b.den = b.num * a.den

\* Dataset.get_continuous: X.columns.difference(cats + [y_label]), sorted
get_continuous == SelectSeq(Cols, LAMBDA c : c \notin Range(cats) /\ c # y_label)

\* the rows of df at which column c holds a value
Present(df, c) == {i \in 1..Len(df) : df[i].v[c] # NaN}

\* Dataset.fillNa_cont on one column: the missing cells become the mean of the
\* others.  The column is kept times the number of its present cells (the mean
\* is then their sum), which leaves every correlation as it is.  The mean of
\* an all-missing column is NaN and nothing is filled.
fillNa_cont(df, c) ==
    With(Present(df, c), LAMBDA pr :
      With(SumSeq([i \in 1..Len(df) |-> IF i \in pr THEN df[i].v[c] ELSE 0]),
        LAMBDA sum :
          [i \in 1..Len(df) |->
             IF pr = {} THEN NaN
             ELSE IF i \in pr THEN Cardinality(pr) * df[i].v[c] ELSE sum]))

\* Series.mode()[0]: the most frequent present value, the smallest of them on
\* a tie
mode0(col) ==
    LET cnt(v) == Cardinality({i \in 1..Len(col) : col[i] = v})
        vals == Range(col) \ {NaN}
    IN SetMin({v \in vals : \A u \in vals : cnt(u) <= cnt(v)})

\* Dataset.fillNa_cate on one column; mode()[0] raises KeyError when the column
\* has no present cell
fillNa_cate(df, c) ==
    With(Column(df, c), LAMBDA col :
      IF Range(col) \ {NaN} = {} THEN [err |-> "KeyError", val |-> <<>>]
      ELSE [err |-> "none",
            val |-> [i \in 1..Len(col) |-> IF col[i] = NaN THEN mode0(col) ELSE col[i]]])

\* len(a) * sum(a * b) - sum(a) * sum(b): the covariance of two columns up to
\* a positive factor, NaN when a cell is
cov(a, b) ==
    IF NaN \in Range(a) \/ NaN \in Range(b) THEN NaN
    ELSE Len(a) * SumSeq([i \in 1..Len(a) |-> a[i] * b[i]]) - SumSeq(a) * SumSeq(b)

\* one entry of np.corrcoef: cov(a, b) / sqrt(cov(a, a) * cov(b, b)), NaN for
\* 0 / 0 (a constant column, or a single row)
pearson(a, b) ==
    With(<<cov(a, b), cov(a, a), cov(b, b)>>, LAMBDA c :
      IF c[1] = NaN \/ c[2] = 0 \/ c[3] = 0 THEN QNaN
      ELSE Q((IF c[1] < 0 THEN -1 ELSE 1) * c[1] * c[1], c[2] * c[3]))

\* np.corrcoef(num_mat, rowvar=False): a scalar for one column, else the
\* square matrix, row by row
corrcoef(columns) ==
    IF Len(columns) = 1
    THEN [shape |-> <<>>, val |-> <<pearson(columns[1], columns[1])>>]
    ELSE [shape |-> <<Len(columns), Len(columns)>>,
          val |-> [k \in 1..(Len(columns) * Len(columns)) |->
                     pearson(columns[1 + ((k - 1) \div Len(columns))],
                             columns[1 + ((k - 1) % Len(columns))])]]

\* dython's conditional_entropy(x, y) = H(x | y), times the number of cells:
\* sum_v c_y(v) ln c_y(v) - sum_(u, v) c_xy(u, v) ln c_xy(u, v)
conditional_entropy(x, given) ==
    LET pairs   == {<<x[i], given[i]>> : i \in 1..Len(x)}
        cy(v)   == Cardinality({i \in 1..Len(given) : given[i] = v})
        cxy(uv) == Cardinality({i \in 1..Len(x) : <<x[i], given[i]>> = uv})
        ys      == SortedSeq(Range(given))
        ps      == [k \in 1..Cardinality(pairs) |->
                      CHOOSE uv \in pairs :
                         Cardinality({q \in pairs :
                            q[1] < uv[1] \/ (q[1] = uv[1] /\ q[2] < uv[2])}) = k - 1]
    IN SumSeq([k \in 1..Len(ys) |-> NLogN[cy(ys[k])]])
         - SumSeq([k \in 1..Len(ps) |-> NLogN[cxy(ps[k])]])

\* a mutant of theils_u: a column without entropy is associated with nothing
theils_u_zero(x, given) ==
    With(column_entropy(x), LAMBDA s_x :
      IF s_x = 0 THEN QZero ELSE Q(s_x - conditional_entropy(x, given), s_x))

\* dython.nominal.theils_u(x, y): (H(x) - H(x | y)) / H(x), and 1 when H(x) = 0
theils_u(x, given) ==
    With(column_entropy(x), LAMBDA s_x :
      IF s_x = 0 THEN QOne ELSE Q(s_x - conditional_entropy(x, given), s_x))

\* Dataset.theils_u_mat(df), df given by its columns; entry (i, j), row by row
theils_u_mat(columns) ==
    [shape |-> <<Len(columns), Len(columns)>>,
     val |-> [k \in 1..(Len(columns) * Len(columns)) |->
                theils_u(columns[1 + ((k - 1) \div Len(columns))],
                         columns[1 + ((k - 1) % Len(columns))])]]

\* Dataset.correlation_ratio(categories, measurements), both columns of df.
\* measurements[positions] looks the positions up as index labels and raises
\* KeyError for one the index lacks.  eta = numerator / denominator over the
\* common denominator prod_i n_i, with N and S the number and the sum of the
\* measurements of the categorised rows.
correlation_ratio(df, cat_col, cont_col) ==
    LET fcat   == SortedSeq(Range(Column(df, cat_col)) \ {NaN})
        rows(i) == {r \in 1..Len(df) : df[r].v[cat_col] = fcat[i]}
        has(p)  == \E r \in 1..Len(df) : df[r].idx = p
        at(p)   == df[CHOOSE r \in 1..Len(df) : df[r].idx = p].v[cont_col]
        grouped == UNION {rows(i) : i \in 1..Len(fcat)}
        n(i)    == Cardinality(rows(i))
        S(i)    == SumSeq([r \in 1..Len(df) |-> IF r \in rows(i) THEN at(r - 1) ELSE 0])
        N       == Cardinality(grouped)
        T       == SumSeq([i \in 1..Len(fcat) |-> S(i)])
        P       == ProdSeq([i \in 1..Len(fcat) |-> n(i)])
        numerator   == SumSeq([i \in 1..Len(fcat) |->
                          (S(i) * N - T * n(i)) * (S(i) * N - T * n(i)) * (P \div n(i))])
        denominator == P * SumSeq([r \in 1..Len(df) |->
                          (df[r].v[cont_col] * N - T) * (df[r].v[cont_col] * N - T)])
    IN IF \E r \in grouped : ~has(r - 1) THEN [err |-> "KeyError", val |-> QNaN]
       ELSE IF N = 0 THEN [err |-> "none", val |-> QZero]
       ELSE IF \E r \in grouped : at(r - 1) = NaN THEN [err |-> "none", val |-> QNaN]
       ELSE IF numerator = 0 THEN [err |-> "none", val |-> QZero]
       ELSE IF NaN \in Range(Column(df, cont_col)) THEN [err |-> "none", val |-> QNaN]
       ELSE [err |-> "none", val |-> Q(numerator, denominator)]

\* a mutant of ratio_mat: the empty-list case is not singled out and the empty
\* frame's values are returned
ratio_mat_unguarded(df, continuous_columns, categorical_columns) ==
    [err |-> "none", shape |-> <<Len(continuous_columns), Len(categorical_columns)>>,
     val |-> <<>>]

\* Dataset.ratio_mat(df, continuous_columns, categorical_columns): np.zeros(1)
\* when either list is empty, else the matrix with a row per continuous and a
\* column per categorical column, row by row
ratio_mat(df, continuous_columns, categorical_columns) ==
    IF Len(categorical_columns) = 0 \/ Len(continuous_columns) = 0
    THEN [err |-> "none", shape |-> <<1>>, val |-> <<QZero>>]
    ELSE With([k \in 1..(Len(continuous_columns) * Len(categorical_columns)) |->
                 correlation_ratio(df,
                     categorical_columns[1 + ((k - 1) % Len(categorical_columns))],
                     continuous_columns[1 + ((k - 1) \div Len(categorical_columns))])],
              LAMBDA eta :
                IF \E k \in 1..Len(eta) : eta[k].err # "none"
                THEN [err |-> "KeyError", shape |-> <<>>, val |-> <<>>]
                ELSE [err |-> "none",
                      shape |-> <<Len(continuous_columns), Len(categorical_columns)>>,
                      val |-> [k \in 1..Len(eta) |-> eta[k].val]])

\* Dataset.compute_correlations(df): (pearson_sub_matrix, theils_u_matrix,
\* correl_ratio_mat), or the error raised.  The Pearson matrix and Theil's U
\* are taken on the filled copies, the correlation ratio on df itself.
compute_correlations(df) ==
    With([k \in 1..Len(get_continuous) |-> fillNa_cont(df, get_continuous[k])],
      LAMBDA num_mat :
    With([k \in 1..Len(cats) |-> fillNa_cate(df, cats[k])], LAMBDA cat_mat :
      IF \E k \in 1..Len(cat_mat) : cat_mat[k].err # "none"
      THEN [err |-> "KeyError"]
      ELSE With(ratio_mat(df, get_continuous, cats), LAMBDA correl_ratio_mat :
             IF correl_ratio_mat.err # "none"
             THEN [err |-> correl_ratio_mat.err]
             ELSE [err |-> "none",
                   pearson |-> corrcoef(num_mat),
                   theils  |-> theils_u_mat([k \in 1..Len(cat_mat) |-> cat_mat[k].val]),
                   ratio   |-> correl_ratio_mat])))

\* np.linalg.norm(a - b) for two arrays of one shape, as zero, positive or nan
norm_of_difference(a, b) ==
    IF \E k \in 1..Len(a.val) : a.val[k].nan \/ b.val[k].nan THEN "nan"
    ELSE IF \A k \in 1..Len(a.val) : QEq(a.val[k], b.val[k]) THEN "zero"
    ELSE "positive"

\* Dataset.get_correlations: the three norms, or the error raised
get_correlations ==
    With(get_single_encoded_data, LAMBDA data :
      IF data.err # "none" THEN [err |-> data.err]
      ELSE With(compute_correlations(data.real), LAMBDA real :
           With(compute_correlations(data.gen), LAMBDA gen :
             IF real.err # "none" THEN [err |-> real.err]
             ELSE IF gen.err # "none" THEN [err |-> gen.err]
             ELSE [err |-> "none",
                   pearson |-> norm_of_difference(real.pearson, gen.pearson),
                   theils  |-> norm_of_difference(real.theils, gen.theils),
                   ratio   |-> norm_of_difference(real.ratio, gen.ratio)])))

\* scipy.spatial.distance.jensenshannon(p, q) on two vectors: each is divided
\* by its sum, and the i-th entries are compared with each other.  A vector of
\* one entry is broadcast; other unequal lengths raise ValueError.  The
\* distance is kept as zero, positive, inf or nan: a zero sum gives nan, a
\* negative normalised entry inf, and the distance is zero exactly when the
\* normalised vectors are equal entry by entry.
jensenshannon(p, q) ==
    LET n      == IF Len(p) > Len(q) THEN Len(p) ELSE Len(q)
        at(v, i) == IF Len(v) = 1 THEN v[1] ELSE v[i]
        sp     == SumSeq(p)
        sq     == SumSeq(q)
    IN IF Len(p) # Len(q) /\ Len(p) # 1 /\ Len(q) # 1
       THEN [err |-> "ValueError", val |-> "nan"]
       ELSE IF NaN \in Range(p) \/ NaN \in Range(q) \/ sp = 0 \/ sq = 0
       THEN [err |-> "none", val |-> "nan"]
       ELSE IF \/ \E i \in 1..Len(p) : p[i] * sp < 0
               \/ \E i \in 1..Len(q) : q[i] * sq < 0
       THEN [err |-> "none", val |-> "inf"]
       ELSE IF \A i \in 1..n : at(p, i) * sq = at(q, i) * sp
       THEN [err |-> "none", val |-> "zero"]
       ELSE [err |-> "none", val |-> "positive"]

\* Dataset.jensen_shannon_distance: jensenshannon of each categorical column
\* of the encoded real table and the same column of the encoded synthetic one
jensen_shannon_distance ==
    With(get_single_encoded_data, LAMBDA data :
      IF data.err # "none" THEN [err |-> data.err, val |-> <<>>]
      ELSE With([c \in Range(cats) |->
                   jensenshannon(Column(data.real, c), Column(data.gen, c))],
                LAMBDA distances :
                  IF \E c \in Range(cats) : distances[c].err # "none"
                  THEN [err |-> "ValueError", val |-> <<>>]
                  ELSE [err |-> "none",
                        val |-> [c \in Range(cats) |-> distances[c].val]]))

-----------------------------------------------------------------------------
(* SpecCorr: the correlation metrics on small real and synthetic tables *)

\* the calls below are made once the tables are there, and change none
TablesSet == call.op \in {"__init__", "load_from_disk"}

GetCorrelations ==
    /\ TablesSet
    /\ X_gen # None
    /\ call' = [op |-> "get_correlations", ret |-> get_correlations]
    /\ UNCHANGED <<config, X, y, X_val, y_val, X_test, y_test, X_gen, y_gen,
                   cats, X_cats, label_encoder, mn, mx>>

JensenShannonDistance ==
    /\ TablesSet
    /\ X_gen # None
    /\ call' = [op |-> "jensen_shannon_distance", ret |-> jensen_shannon_distance]
    /\ UNCHANGED <<config, X, y, X_val, y_val, X_test, y_test, X_gen, y_gen,
                   cats, X_cats, label_encoder, mn, mx>>

\* A caller's compute_correlations on the encoded real or synthetic table
ComputeCorrelations(of) ==
    /\ TablesSet
    /\ X_gen # None
    /\ get_single_encoded_data.err = "none"
    /\ call' = With(get_single_encoded_data[of], LAMBDA df :
                  [op |-> "compute_correlations", of |-> of, df |-> df,
                   ret |-> compute_correlations(df)])
    /\ UNCHANGED <<config, X, y, X_val, y_val, X_test, y_test, X_gen, y_gen,
                   cats, X_cats, label_encoder, mn, mx>>

\* A caller's ratio_mat on the training table with column lists of its choice
RatioMat(continuous_columns, categorical_columns) ==
    /\ TablesSet
    /\ call' = [op |-> "ratio_mat", continuous_columns |-> continuous_columns,
                categorical_columns |-> categorical_columns,
                ret |-> ratio_mat(get_single_df, continuous_columns,
                                  categorical_columns)]
    /\ UNCHANGED <<config, X, y, X_val, y_val, X_test, y_test, X_gen, y_gen,
                   cats, X_cats, label_encoder, mn, mx>>

CorrRows == {[f1 |-> a, f2 |-> b] : a \in {1, 2}, b \in {0, 1}}

\* synthetic rows: f2 may be missing
CorrGenRows == CorrRows \cup {[f1 |-> 2, f2 |-> NaN]}

\* one categorical and one continuous column; no categorical column; no
\* continuous column
CorrConfigs == {
    [download |-> "ucimlrepo", categorical_columns |-> <<"f1">>, binary_columns |-> <<>>],
    [download |-> "sklearn", categorical_columns |-> <<>>, binary_columns |-> <<>>],
    [download |-> "ucimlrepo", categorical_columns |-> <<"f1">>, binary_columns |-> <<"f2">>] }

InitCorr ==
    \E cfg \in CorrConfigs, cells \in SeqsOf(CorrRows, 1, MaxRows) :
        Constructed(cfg,
                    Frame(RangeIndex(Len(cells)), cells),
                    LabelFrame(RangeIndex(Len(cells)),
                               [i \in 1..Len(cells) |-> 1 + (i % 2)]),
                    Frame(RangeIndex(1), <<[f1 |-> 2, f2 |-> 1]>>),
                    LabelFrame(RangeIndex(1), <<1>>),
                    Frame(RangeIndex(1), <<[f1 |-> 1, f2 |-> 0]>>),
                    LabelFrame(RangeIndex(1), <<2>>))

NextCorr ==
    \/ \E cells \in SeqsOf(CorrGenRows, 1, MaxGenRows) :
          call.op = "__init__" /\ LoadFromDisk(cells, [i \in 1..Len(cells) |-> 1])
    \/ GetCorrelations
    \/ JensenShannonDistance
    \/ \E of \in {"real", "gen"} : ComputeCorrelations(of)
    \/ \E continuous_columns \in {<<>>, <<"f2">>}, categorical_columns \in {<<>>, <<"f1">>} :
          RatioMat(continuous_columns, categorical_columns)

SpecCorr == InitCorr /\ [][NextCorr]_vars

-----------------------------------------------------------------------------
(* Claims on the correlation metrics *)

\* np.zeros(1), returned without an error
SingleZero(ret) == ret.err = "none" /\ ret.shape = <<1>> /\ ret.val = <<QZero>>

\* C8: ratio_mat with no categorical or no continuous column returns the
\* single-element zero matrix and does not raise, whether it is called with
\* such lists or from compute_correlations on such a schema; the
\* correlation-ratio norm get_correlations returns is then 0.
C8_DegenerateRatioMatIsSingleZero ==
    /\ (call.op = "ratio_mat"
          /\ (call.categorical_columns = <<>> \/ call.continuous_columns = <<>>))
          => SingleZero(call.ret)
    /\ (call.op = "compute_correlations" /\ (cats = <<>> \/ get_continuous = <<>>))
          => (call.ret.err = "none" /\ SingleZero(call.ret.ratio))
    /\ (call.op = "get_correlations" /\ (cats = <<>> \/ get_continuous = <<>>)
          /\ call.ret.err = "none")
          => call.ret.ratio = "zero"

\* C8's case: get_correlations returned on a schema without continuous columns
C8_Witness ==
    /\ call.op = "get_correlations"
    /\ get_continuous = <<>>
    /\ cats # <<>>
    /\ call.ret.err = "none"
    /\ call.ret.ratio = "zero"

\* C9: every diagonal entry of the matrix theils_u_mat returns is exactly 1,
\* also for a column that holds a single distinct value.
C9_TheilsDiagonalIsOne ==
    (call.op = "compute_correlations" /\ call.ret.err = "none")
        => /\ call.ret.theils.shape = <<Len(cats), Len(cats)>>
           /\ \A i \in 1..Len(cats) :
                 QEq(call.ret.theils.val[(i - 1) * Len(cats) + i], QOne)

\* C9's case: the matrix was computed on a table of several rows in which a
\* categorical column holds a single distinct value
C9_Witness ==
    /\ call.op = "compute_correlations"
    /\ call.ret.err = "none"
    /\ Len(call.df) >= 2
    /\ \E i \in 1..Len(cats) :
          /\ Cardinality(Range(Column(call.df, cats[i]))) = 1
          /\ QEq(call.ret.theils.val[(i - 1) * Len(cats) + i], QOne)

\* a column holds no missing cell and, if it is categorical, no code -1
NothingMissing(col, categorical) ==
    NaN \notin Range(col) /\ (categorical => -1 \notin Range(col))

\* C11: on the way to the correlations the missing values are imputed before
\* the categories are encoded, so the tables handed to np.corrcoef,
\* theils_u_mat and ratio_mat hold no missing cell and no code that stands
\* for one.
C11_ImputedBeforeEncoded ==
    (call.op = "compute_correlations" /\ call.ret.err = "none")
        => /\ \A k \in 1..Len(get_continuous) :
                 /\ NothingMissing(fillNa_cont(call.df, get_continuous[k]), FALSE)
                 /\ NothingMissing(Column(call.df, get_continuous[k]), FALSE)
           /\ \A k \in 1..Len(cats) :
                 /\ NothingMissing(fillNa_cate(call.df, cats[k]).val, TRUE)
                 /\ NothingMissing(Column(call.df, cats[k]), TRUE)

-----------------------------------------------------------------------------
(* Claims on what the operations write *)

\* the operations that compute a result from tables
EngineOps == {"encode_categories", "decode_categories", "get_correlations",
              "compute_correlations", "compute_distances_hits",
              "jensen_shannon_distance"}

\* C12: an engine operation leaves the container's tables and the table it is
\* given as they were before the call.
C12_EnginesMutateNothing ==
    [][call'.op \in EngineOps
          => /\ UNCHANGED <<X, y, X_val, y_val, X_test, y_test, X_gen, y_gen>>
             /\ call'.op = "decode_categories" => call'.arg = call'.before]_vars

-----------------------------------------------------------------------------
(* SpecEdit: construction, then the operations that edit the tables *)

\* Dataset.__init__ has returned
Built == call.op \notin {"load", "get_label_encoders", "compute_categories"}

\* __init__, line 58: self.get_label_encoders()
GetLabelEncoders ==
    /\ call.op = "load"
    /\ label_encoder' = get_label_encoders(y)
    /\ call' = [op |-> "get_label_encoders"]
    /\ UNCHANGED <<config, X, y, X_val, y_val, X_test, y_test, X_gen, y_gen,
                   cats, X_cats, mn, mx>>

\* __init__, line 59: self.compute_categories()
ComputeCategories ==
    /\ call.op = "get_label_encoders"
    /\ cats' = config.categorical_columns \o config.binary_columns
    /\ X_cats' = compute_categories_X_cats(cats', X)
    /\ call' = [op |-> "compute_categories"]
    /\ UNCHANGED <<config, X, y, X_val, y_val, X_test, y_test, X_gen, y_gen,
                   label_encoder, mn, mx>>

\* __init__, line 60: self.get_min_max(), which calls encode_categories on
\* the three feature tables; __init__ returns after it
GetMinMax ==
    /\ call.op = "compute_categories"
    /\ mn' = get_min_max_mn
    /\ mx' = get_min_max_mx
    /\ call' = [op |-> "__init__"]
    /\ UNCHANGED <<config, X, y, X_val, y_val, X_test, y_test, X_gen, y_gen,
                   cats, X_cats, label_encoder>>

\* A caller's remove(rows_to_remove) with labels the training index holds
Remove(rows_to_remove) ==
    /\ Built
    /\ rows_to_remove \subseteq {X[i].idx : i \in 1..Len(X)}
    /\ remove(rows_to_remove)
    /\ call' = [op |-> "remove"]
    /\ UNCHANGED <<config, X_val, y_val, X_test, y_test, X_gen, y_gen,
                   cats, X_cats, label_encoder, mn, mx>>

\* percentages are given in halves: p stands for p / PercentDen
PercentDen == 2

\* reduce_uniformly_randomly, mutated: the number of rows rounded up
n_remove_ceil(count, p) == (count * p + PercentDen - 1) \div PercentDen

\* reduce_uniformly_randomly: n_remove = int(len(compliant_rows) * percentage)
n_remove(count, p) == (count * p) \div PercentDen

\* reduce_uniformly_randomly: self.y[condition].index for the condition
\* y[y_label] == cls that reduce_size passes
compliant_rows(cls) == {y[i].idx : i \in {j \in 1..Len(y) : y[j].v[y_label] = cls}}

\* compliant_rows.sample(n=n, random_state=SEED).index: some n of the rows
sample(rows, n) == {S \in SUBSET rows : Cardinality(S) = n}

\* Dataset.reduce_size({cls: p / PercentDen}); sample raises ValueError when
\* asked for more rows than there are
ReduceSize(cls, p) ==
    /\ Built
    /\ LET rows == compliant_rows(cls)
           n    == n_remove(Cardinality(rows), p)
       IN IF n > Cardinality(rows)
          THEN /\ call' = [op |-> "reduce_size", cls |-> cls, p |-> p,
                           err |-> "ValueError", n_remove |-> n]
               /\ UNCHANGED <<X, y>>
          ELSE /\ \E rows_to_remove \in sample(rows, n) : remove(rows_to_remove)
               /\ call' = [op |-> "reduce_size", cls |-> cls, p |-> p,
                           err |-> "none", n_remove |-> n]
    /\ UNCHANGED <<config, X_val, y_val, X_test, y_test, X_gen, y_gen,
                   cats, X_cats, label_encoder, mn, mx>>

\* the string 'nan'; a string label is kept as an integer above it
StrNaN == 10

\* Series.astype(str) on one label
astype_str(v) == IF v = NaN THEN StrNaN
                 ELSE IF v >= StrNaN THEN v ELSE StrNaN + v

\* labels[mask] = cls for the mask labels[y_label].isin(labs)
assign_isin(labels, labs, cls) ==
    [i \in 1..Len(labels) |->
        IF labels[i].v[y_label] \in labs
        THEN [idx |-> labels[i].idx, v |-> [c \in {y_label} |-> cls]]
        ELSE labels[i]]

\* Dataset.merge_classes, mutated: the label encoder is not fitted again
merge_classes_no_refit(cls, labs) ==
    /\ y' = assign_isin(y, labs, cls)
    /\ y_val' = assign_isin(y_val, labs, cls)
    /\ y_test' = assign_isin(y_test, labs, cls)
    /\ UNCHANGED label_encoder
    /\ call' = [op |-> "merge_classes", cls |-> cls, labs |-> labs]
    /\ UNCHANGED <<config, X, X_val, X_test, X_gen, y_gen, cats, X_cats, mn, mx>>

\* Dataset.merge_classes({cls: labs})
merge_classes(cls, labs) ==
    /\ y' = assign_isin(y, labs, cls)
    /\ y_val' = assign_isin(y_val, labs, cls)
    /\ y_test' = assign_isin(y_test, labs, cls)
    /\ label_encoder' = get_label_encoders(y')
    /\ call' = [op |-> "merge_classes", cls |-> cls, labs |-> labs]
    /\ UNCHANGED <<config, X, X_val, X_test, X_gen, y_gen, cats, X_cats, mn, mx>>

\* the labels are strings (create_bins has run)
Binned == \E i \in 1..Len(y_val) : y_val[i].v[y_label] >= StrNaN

\* a label of the type the label column holds
AsLabel(k) == IF Binned THEN astype_str(k) ELSE k

\* A caller's merge_classes with a class and labels of the column's type
MergeClasses(cls, labs) ==
    /\ Built
    /\ merge_classes(AsLabel(cls), {AsLabel(l) : l \in labs})

\* pd.cut(v, bins, labels): the label of the interval (bins[k], bins[k+1]]
\* that holds v, NaN when none does
cut(v, bins, labels) ==
    IF \E k \in 1..(Len(bins) - 1) : bins[k] < v /\ v <= bins[k + 1]
    THEN labels[CHOOSE k \in 1..(Len(bins) - 1) : bins[k] < v /\ v <= bins[k + 1]]
    ELSE NaN

\* pd.cut(labels[y_label], bins, labels).astype(str) on one labels frame
cut_astype_str(frame, bins, labels) ==
    [i \in 1..Len(frame) |->
        [idx |-> frame[i].idx,
         v   |-> [c \in {y_label} |-> astype_str(cut(frame[i].v[y_label], bins, labels))]]]

\* Dataset.create_bins(bins, labels); pd.cut raises TypeError on a column of
\* strings, before anything is assigned
create_bins(bins, labels) ==
    IF Binned
    THEN /\ call' = [op |-> "create_bins", err |-> "TypeError"]
         /\ UNCHANGED <<config, X, y, X_val, y_val, X_test, y_test, X_gen, y_gen,
                        cats, X_cats, label_encoder, mn, mx>>
    ELSE /\ y' = cut_astype_str(y, bins, labels)
         /\ y_val' = cut_astype_str(y_val, bins, labels)
         /\ y_test' = cut_astype_str(y_test, bins, labels)
         /\ label_encoder' = get_label_encoders(y')
         /\ call' = [op |-> "create_bins", err |-> "none"]
         /\ UNCHANGED <<config, X, X_val, X_test, X_gen, y_gen, cats, X_cats, mn, mx>>

CreateBins(bins, labels) == Built /\ create_bins(bins, labels)

\* training rows: f1 is a category, f2 a measurement
EditRows == {[f1 |-> a, f2 |-> b] : a \in {1, 2}, b \in {0, 1}}

EditConfigs == {
    [download |-> "ucimlrepo", categorical_columns |-> <<"f1">>, binary_columns |-> <<"f2">>],
    [download |-> NoDownload, categorical_columns |-> <<"f1">>, binary_columns |-> <<>>] }

\* The index of the training table after loading: reset by the download_*
\* loaders; after load_path the labels the rows had in the csv file (here the
\* file's row 0 went to validation and the others were shuffled)
EditIndexes(cfg, n) ==
    IF cfg.download # NoDownload THEN RangeIndex(n) ELSE [i \in 1..n |-> n + 1 - i]

\* the validation rows: a csv file read by load_path may hold missing cells
\* (download_uci fills them with "Missing")
ValRows(cfg) ==
    {[f1 |-> 2, f2 |-> 1]} \cup
    (IF cfg.download = NoDownload THEN {[f1 |-> 2, f2 |-> NaN]} ELSE {})

\* Dataset.__init__ after the tables are loaded (lines 45-56), before
\* get_label_encoders, compute_categories and get_min_max
InitEdit ==
    \E cfg \in EditConfigs, cells \in SeqsOf(EditRows, 1, MaxRows) :
      \E labels \in [1..Len(cells) -> Classes], val \in ValRows(cfg) :
        /\ config = cfg
        /\ X = Frame(EditIndexes(cfg, Len(cells)), cells)
        /\ y = LabelFrame(EditIndexes(cfg, Len(cells)), labels)
        /\ X_val = Frame(RangeIndex(1), <<val>>)
        /\ y_val = LabelFrame(RangeIndex(1), <<1>>)
        /\ X_test = Frame(RangeIndex(1), <<[f1 |-> 1, f2 |-> 0]>>)
        /\ y_test = LabelFrame(RangeIndex(1), <<2>>)
        /\ X_gen = None /\ y_gen = None
        /\ label_encoder = None
        /\ cats = None /\ X_cats = None
        /\ mn = None /\ mx = None
        /\ call = [op |-> "load"]

NextEdit ==
    \/ GetLabelEncoders
    \/ ComputeCategories
    \/ GetMinMax
    \/ Built /\ Encode("X")
    \/ \E n \in 0..MaxRows : Built /\ DropFirstN(n)
    \/ \E rows_to_remove \in SUBSET (0..MaxRows) : Remove(rows_to_remove)
    \/ \E cls \in Classes, p \in 0..(PercentDen + 1) : ReduceSize(AsLabel(cls), p)
    \/ \E cls \in {1, 3}, labs \in {{2}, {1, 2}} : MergeClasses(cls, labs)
    \/ CreateBins(<<0, 1, 2>>, <<1, 2>>)
    \/ CreateBins(<<1, 2>>, <<2>>)

SpecEdit == InitEdit /\ [][NextEdit]_vars

-----------------------------------------------------------------------------
(* Claims on the distribution distances *)

\* every value has the same share of the cells of a as of the cells of b
SameDistribution(a, b) ==
    \A v \in Range(a) \cup Range(b) :
        Cardinality({i \in 1..Len(a) : a[i] = v}) * Len(b)
            = Cardinality({i \in 1..Len(b) : b[i] = v}) * Len(a)

\* C13: jensen_shannon_distance compares, column by column, how often each
\* category occurs in the real and in the synthetic table: with the labels
\* known it returns, whatever the order and the number of the rows, a distance
\* that is zero when the two value-count distributions are equal and positive
\* when they differ.
C13_ComparesValueCounts ==
    (call.op = "jensen_shannon_distance" /\ get_single_encoded_data.err = "none")
        => /\ call.ret.err = "none"
           /\ \A c \in Range(cats) :
                 call.ret.val[c] = IF SameDistribution(Column(X, c), Column(X_gen, c))
                                   THEN "zero" ELSE "positive"

-----------------------------------------------------------------------------
(* Claims on the operations that edit the tables *)

\* df without the rows at the positions P, its index reset
WithoutPositions(df, P) ==
    LET keep == SortedSeq((1..Len(df)) \ P)
    IN [k \in 1..Len(keep) |-> [idx |-> k - 1, v |-> df[keep[k]].v]]

\* C14: a reduce_size({cls: p}) that returns removes int(count(cls) * p) rows
\* of the training table, all of them of class cls and at the same positions
\* of X and y; the other rows and the validation and test tables stay.
C14_ReduceSizeRemovesShareOfClass ==
    [][(call'.op = "reduce_size" /\ call'.err = "none")
          => \E P \in SUBSET (1..Len(y)) :
                /\ Cardinality(P) * PercentDen <=
                      Cardinality({i \in 1..Len(y) : y[i].v[y_label] = call'.cls})
                          * call'.p
                /\ (Cardinality(P) + 1) * PercentDen >
                      Cardinality({i \in 1..Len(y) : y[i].v[y_label] = call'.cls})
                          * call'.p
                /\ \A i \in P : y[i].v[y_label] = call'.cls
                /\ X' = WithoutPositions(X, P)
                /\ y' = WithoutPositions(y, P)
                /\ UNCHANGED <<X_val, y_val, X_test, y_test>>]_vars

\* a reduce_size has removed a row and left another
C14_Witness ==
    /\ call.op = "reduce_size" /\ call.err = "none"
    /\ call.n_remove > 0
    /\ Len(X) > 0 /\ Len(X) = Len(y)

\* C16: the codebook is written by compute_categories only, in the one step
\* of __init__ that follows get_label_encoders; get_min_max and every
\* encode_categories come after that step, and no later operation changes
\* cats or X_cats.
C16_CodebookWrittenOnce ==
    [][/\ (call'.op = "compute_categories" \/ cats' # cats \/ X_cats' # X_cats)
            => (call.op = "get_label_encoders" /\ call'.op = "compute_categories")
       /\ call'.op \in {"__init__", "encode_categories"}
            => call.op \notin {"load", "get_label_encoders"}]_vars

\* rows were dropped and the codebook still holds the categories of the table
\* it was fitted on, which the training table no longer has
C16_Witness ==
    /\ call.op = "drop_first_n"
    /\ cats # None
    /\ X_cats # compute_categories_X_cats(cats, X)

\* a <= b for two numbers, neither of them NaN
Le(a, b) == a # NaN /\ b # NaN /\ a <= b

\* C17: after construction and any sequence of reduce_size, drop_first_n,
\* remove and merge_classes, every value of every feature column of the
\* encoded training, validation and test tables lies between mn and mx.
C17_BoundsBracketRealData ==
    Built => \A c \in Range(Cols) :
                \A v \in (Range(Column(encode_categories(X), c))
                          \cup Range(Column(encode_categories(X_val), c))
                          \cup Range(Column(encode_categories(X_test), c))) \ {NaN} :
                    Le(mn[c], v) /\ Le(v, mx[c])

\* C19: after construction and any sequence of merge_classes, create_bins,
\* reduce_size, drop_first_n and remove, every label in y is a class of the
\* label encoder.
C19_TrainingLabelsKnown ==
    Built => Range(Column(y, y_label)) \subseteq Range(label_encoder)

\* classes were merged into a class the loaded labels did not have
C19_Witness ==
    /\ call.op = "merge_classes"
    /\ call.cls \notin Classes
    /\ call.cls \in Range(Column(y, y_label))

-----------------------------------------------------------------------------
(* Claims on the encoded tables *)

\* the cells of a table's rows, in row order, without the index
Cells(df) == [i \in 1..Len(df) |-> df[i].v]

\* C18: get_single_encoded_data returns a real table with the rows of X and a
\* synthetic table with the rows of X_gen, row i holding the encoded features
\* and the encoded label of row i and no missing cell from the join, whatever
\* index the tables carry.
C18_EncodedTablesRowForRow ==
    (call.op = "get_single_encoded_data" /\ call.ret.err = "none")
        => /\ Cells(call.ret.real) = RowForRow(X, y)
           /\ Cells(call.ret.gen) = RowForRow(X_gen, y_gen)

-----------------------------------------------------------------------------
(* SpecPart: compute_distances_hits, partition by partition *)

\* dd.from_pandas(df, npartitions = n): the rows sorted by index label and cut
\* into consecutive partitions of ceil(len(df) / n) rows
from_pandas(df, n) ==
    IF Len(df) = 0 THEN <<>>
    ELSE With(SortByIdx(df), LAMBDA sorted :
           LET chunksize == (Len(sorted) + n - 1) \div n
               k         == (Len(sorted) + chunksize - 1) \div chunksize
           IN [j \in 1..k |->
                 SubSeq(sorted, (j - 1) * chunksize + 1,
                        IF j * chunksize < Len(sorted) THEN j * chunksize
                        ELSE Len(sorted))])

RECURSIVE Flatten(_)
\* the rows of a sequence of row blocks, block after block
Flatten(blocks) ==
    IF blocks = <<>> THEN <<>> ELSE Head(blocks).rows \o Flatten(Tail(blocks))

\* ddf.compute(), mutated: the partitions' results in the order they finished
compute_as_completed(results) == Flatten(results)

\* ddf.compute(): the partitions' results concatenated in partition order
compute(results) ==
    Flatten([k \in 1..Len(results) |->
                results[CHOOSE i \in 1..Len(results) : results[i].part = k]])

\* gen_ddf.apply(min_l2_distance, axis=1, args=(real_array,)) on one partition
apply_min_l2_distance(partition, real_array) ==
    [i \in 1..Len(partition) |->
        With(min_l2_distance(partition[i].v, real_array),
             LAMBDA m : [idx |-> partition[i].idx,
                         s_r_l2_min_1 |-> m[1], s_r_l2_min_2 |-> m[2]])]

\* real_ddf.apply(min_dist_real_synth, axis=1, args=(real_array, fake_array,
\* thres.values, w)) on one partition
apply_min_dist_real_synth(partition, real_array, fake_array, thres, w) ==
    [i \in 1..Len(partition) |->
        With(min_dist_real_synth(partition[i].v, real_array, fake_array, thres, w),
             LAMBDA m : [idx |-> partition[i].idx, hit |-> m.hit,
                         r_s_diff_min |-> m.r_s_diff_min,
                         r_r_diff_min |-> m.r_r_diff_min])]

\* compute_distances_hits raises: the call ends without statistics
Raised(err) ==
    [op |-> "compute_distances_hits", p |-> call.p, n |-> call.n,
     synth_order |-> <<>>, real_order |-> <<>>,
     ret |-> [err |-> err, synth |-> <<>>, real |-> <<>>]]

\* compute_distances_hits(thres_percent = p / ThresDen) on a Dataset built with
\* n_partitions = n starts: the encoded tables are made and partitioned
StartDistancesHits(p, n) ==
    /\ X_gen # None
    /\ call.op = "load_from_disk"
    /\ call' = IF get_single_encoded_data.err # "none"
               THEN [op |-> "compute_distances_hits", p |-> p, n |-> n,
                     synth_order |-> <<>>, real_order |-> <<>>,
                     ret |-> [err |-> get_single_encoded_data.err,
                              synth |-> <<>>, real |-> <<>>]]
               ELSE [op |-> "computing", p |-> p, n |-> n,
                     synth |-> <<>>, real |-> <<>>]
    /\ UNCHANGED <<config, X, y, X_val, y_val, X_test, y_test, X_gen, y_gen,
                   cats, X_cats, label_encoder, mn, mx>>

\* the partitions of `results` that are done
Done(results) == {results[i].part : i \in 1..Len(results)}

\* one partition of gen_ddf is processed (lines 732-741), in any order
GenPartition(k) ==
    /\ call.op = "computing"
    /\ k \in (1..Len(from_pandas(get_single_encoded_data.gen, call.n)))
                \ Done(call.synth)
    /\ call' = With(get_single_encoded_data, LAMBDA data :
               With(from_pandas(data.gen, call.n), LAMBDA gen_ddf :
               With(SortByIdx(data.real), LAMBDA real_array :
                  IF Len(real_array) < 2 THEN Raised("ValueError")
                  ELSE [call EXCEPT !.synth = Append(@,
                          [part |-> k,
                           rows |-> apply_min_l2_distance(gen_ddf[k], real_array)])])))
    /\ UNCHANGED <<config, X, y, X_val, y_val, X_test, y_test, X_gen, y_gen,
                   cats, X_cats, label_encoder, mn, mx>>

\* one partition of real_ddf is processed (lines 763-778), in any order, once
\* synth_dists is computed
RealPartition(k) ==
    /\ call.op = "computing"
    /\ Done(call.synth) = 1..Len(from_pandas(get_single_encoded_data.gen, call.n))
    /\ k \in (1..Len(from_pandas(get_single_encoded_data.real, call.n)))
                \ Done(call.real)
    /\ call' = With(get_single_encoded_data, LAMBDA data :
               With(from_pandas(data.real, call.n), LAMBDA real_ddf :
               With(SortByIdx(data.real), LAMBDA real_array :
               With(SortByIdx(data.gen), LAMBDA fake_array :
               With(thres_of(call.p, data.real), LAMBDA thres :
               With([c \in Range(DataCols) |-> column_entropy(Column(real_array, c))],
                    LAMBDA w :
                  [call EXCEPT !.real = Append(@,
                     [part |-> k,
                      rows |-> apply_min_dist_real_synth(
                                  real_ddf[k], real_array, fake_array, thres, w)])]))))))
    /\ UNCHANGED <<config, X, y, X_val, y_val, X_test, y_test, X_gen, y_gen,
                   cats, X_cats, label_encoder, mn, mx>>

\* every partition is done: compute_distances_hits returns
\* (synth_dists, real_hits_diffs)
ReturnDistancesHits ==
    /\ call.op = "computing"
    /\ With(get_single_encoded_data, LAMBDA data :
          /\ Done(call.synth) = 1..Len(from_pandas(data.gen, call.n))
          /\ Done(call.real) = 1..Len(from_pandas(data.real, call.n)))
    /\ call' = [op |-> "compute_distances_hits", p |-> call.p, n |-> call.n,
                synth_order |-> [i \in 1..Len(call.synth) |-> call.synth[i].part],
                real_order |-> [i \in 1..Len(call.real) |-> call.real[i].part],
                ret |-> [err |-> "none", synth |-> compute(call.synth),
                         real |-> compute(call.real)]]
    /\ UNCHANGED <<config, X, y, X_val, y_val, X_test, y_test, X_gen, y_gen,
                   cats, X_cats, label_encoder, mn, mx>>

\* training and synthetic rows: f1 is a category, f2 a measurement
PartRows == {[f1 |-> 1, f2 |-> 0], [f1 |-> 2, f2 |-> 2]}

\* The index of the training table after loading: reset by the download_*
\* loaders; after load_path the labels the rows had in the csv file, here in
\* descending order, with the file's last or first row gone to validation
PartIndexes(cfg, n) ==
    IF cfg.download # NoDownload THEN {RangeIndex(n)}
    ELSE {[i \in 1..n |-> n - i], [i \in 1..n |-> n + 1 - i]}

InitPart ==
    \E cfg \in DistConfigs, cells \in SeqsOf(PartRows, 1, MaxRows) :
      \E index \in PartIndexes(cfg, Len(cells)) :
        Constructed(cfg, Frame(index, cells),
                    LabelFrame(index, [i \in 1..Len(cells) |-> 1 + (i % 2)]),
                    Frame(RangeIndex(1), <<[f1 |-> 2, f2 |-> 2]>>),
                    LabelFrame(RangeIndex(1), <<1>>),
                    Frame(RangeIndex(1), <<[f1 |-> 1, f2 |-> 0]>>),
                    LabelFrame(RangeIndex(1), <<2>>))

NextPart ==
    \/ \E cells \in SeqsOf(PartRows, 1, MaxGenRows) :
          /\ call.op = "__init__"
          /\ LoadFromDisk(cells, [i \in 1..Len(cells) |-> 1])
    \/ \E p \in ThresPercents, n \in 1..MaxPartitions : StartDistancesHits(p, n)
    \/ \E k \in 1..MaxPartitions : GenPartition(k)
    \/ \E k \in 1..MaxPartitions : RealPartition(k)
    \/ ReturnDistancesHits

SpecPart == InitPart /\ [][NextPart]_vars

-----------------------------------------------------------------------------
(* Claims on the partitioned computation *)

\* the index labels of a frame's rows, in row order
IndexOf(df) == [i \in 1..Len(df) |-> df[i].idx]

\* whatever the number of partitions and the order in which they were
\* processed, the call returns what the computation on the whole arrays gives
SameForEveryPartitioning ==
    call.op = "compute_distances_hits" => call.ret = compute_distances_hits(call.p)

\* C15 as stated: the statistics are the same for every n_partitions and every
\* processing order, and their rows come in the original row order of the
\* real and of the synthetic table.
C15_SamePerRowInOriginalOrder ==
    /\ SameForEveryPartitioning
    /\ (call.op = "compute_distances_hits" /\ call.ret.err = "none")
          => /\ IndexOf(call.ret.real) = IndexOf(X)
             /\ IndexOf(call.ret.synth) = IndexOf(X_gen)

\* C15, amended: the statistics are the same for every n_partitions and every
\* processing order, and their rows come in ascending order of the index
\* labels of the encoded tables (dd.from_pandas sorts by index), which is the
\* original row order when the index is sorted.
C15_SamePerRowInIndexOrder ==
    /\ SameForEveryPartitioning
    /\ (call.op = "compute_distances_hits" /\ call.ret.err = "none")
          => /\ IndexOf(call.ret.real) = IndexOf(SortByIdx(get_single_encoded_data.real))
             /\ IndexOf(call.ret.synth) = IndexOf(SortByIdx(get_single_encoded_data.gen))

\* two partitions of the real table were processed last first, and the call
\* returned
C15_Witness ==
    /\ call.op = "compute_distances_hits" /\ call.ret.err = "none"
    /\ call.n > 1
    /\ call.real_order = <<2, 1>>


=============================================================================
